---- MODULE Spec2Model ----
(***************************************************************************)
(* Model of ai-service/app/main.py: the mock prediction service.           *)
(*                                                                         *)
(* Numbers.  Probabilities and base draws are fixed-point integers in      *)
(* thousandths of a percent (5.0 is 5000, 100.0 is 100000); a value        *)
(* rounded to two decimals is a multiple of 10.  Coordinates are in        *)
(* ten-thousandths of a degree (-2.1894 is -21894).  Strings that are      *)
(* concatenated and hashed are sequences of one-character strings.         *)
(*                                                                         *)
(* The process-wide generator of the random module is a state of RngMod    *)
(* values with a full-period step; random() is state / RngMod.             *)
(***************************************************************************)
EXTENDS Integers, Sequences, FiniteSets, TLC

\* ------------------------------------------------------------------ bounds

\* Number of requests the process receives in one behaviour.
MaxTasks == 2

\* Number of clock ticks (datetime.now() advances) in one behaviour.
MaxClock == 1

\* ------------------------------------------------- abstractions of builtins

\* Size of the generator's state space (random module).
RngMod == 64

\* Range of the string hash (builtin hash()), signed: -HashMod/2 .. HashMod/2-1.
HashMod == 256

\* Per-process hash randomisation (PYTHONHASHSEED): fixed when the process starts.
HashSalts == {0, 1}

\* States that seeding from operating-system entropy (random.seed()) can produce.
EntropyStates == {9, 40}

Abs(n) == IF n < 0 THEN -n ELSE n

\* Code points of the characters the modelled requests use.
Ord(c) ==
  CASE c = "0" -> 48 [] c = "1" -> 49 [] c = "2" -> 50 [] c = "3" -> 51
    [] c = "4" -> 52 [] c = "5" -> 53 [] c = "6" -> 54 [] c = "7" -> 55
    [] c = "8" -> 56 [] c = "9" -> 57
    [] c = "B" -> 66 [] c = "G" -> 71

Digit(d) ==
  CASE d = 0 -> "0" [] d = 1 -> "1" [] d = 2 -> "2" [] d = 3 -> "3"
    [] d = 4 -> "4" [] d = 5 -> "5" [] d = 6 -> "6" [] d = 7 -> "7"
    [] d = 8 -> "8" [] d = 9 -> "9"

\* str(n) for a non-negative integer, as the f-string formats request.month.
RECURSIVE IntToStr(_)
IntToStr(n) == IF n < 10 THEN <<Digit(n)>>
               ELSE IntToStr(n \div 10) \o <<Digit(n % 10)>>

\* hash(s) of a string under the process's salt: a signed integer.
RECURSIVE HashFrom(_, _)
HashFrom(h, s) == IF s = <<>> THEN h
                  ELSE HashFrom((h * 31 + Ord(Head(s))) % HashMod, Tail(s))

Hash(salt, s) ==
  LET h == HashFrom(salt, s)
  IN  IF h >= HashMod \div 2 THEN h - HashMod ELSE h

\* random.seed(a) for an integer a: the state is a function of abs(a).
RandomSeed(a) == Abs(a) % RngMod

\* One step of the generator.
RngStep(s) == (37 * s + 11) % RngMod

\* random.uniform(5, 85) = 5 + (85 - 5) * random(), read from generator state s.
Uniform_5_85(s) == 5000 + (80000 * s) \div RngMod

\* round(x, 2): x in thousandths to the nearest hundredth, ties to even.
Round2(x) ==
  LET q == x \div 10
      r == x % 10
  IN  IF r > 5 \/ (r = 5 /\ q % 2 = 1) THEN (q + 1) * 10 ELSE q * 10

Min(a, b) == IF a <= b THEN a ELSE b

\* ----------------------------------------------------------- data contracts

\* PredictionRequest's field constraints.
ValidRequest(r) ==
  /\ r.latitude >= -50000 /\ r.latitude <= 20000
  /\ r.longitude >= -810000 /\ r.longitude <= -750000
  /\ r.day >= 1 /\ r.day <= 31
  /\ r.month >= 1 /\ r.month <= 12
  /\ Len(r.provincia) >= 1
  /\ Len(r.canton) >= 1

\* EventProbability's constraint on probability: ge=0.0, le=100.0.
ValidEventProbability(p) == p >= 0 /\ p <= 100000

EventProbability(e, p, r) == [event_type |-> e, probability |-> p, risk_level |-> r]

MODEL_LOADED_Initial == FALSE

\* ------------------------------------------------------------------ helpers

\* get_risk_level with strict comparisons.
get_risk_level_strict(probability) ==
  IF probability > 75000 THEN "crítico"
  ELSE IF probability > 50000 THEN "alto"
  ELSE IF probability > 25000 THEN "medio"
  ELSE "bajo"

get_risk_level(probability) ==
  IF probability >= 75000 THEN "crítico"
  ELSE IF probability >= 50000 THEN "alto"
  ELSE IF probability >= 25000 THEN "medio"
  ELSE "bajo"

\* event_types with one type listed twice and one left out.
event_types_dup == <<"Inundación", "Deslizamiento", "Incendio", "Incendio">>

event_types == <<"Inundación", "Deslizamiento", "Incendio", "Sismo">>

\* A seed text that also reads the day.
SeedTextWithDay(r) == r.provincia \o r.canton \o IntToStr(r.month) \o IntToStr(r.day)

\* f"{request.provincia}{request.canton}{request.month}"
SeedText(r) == r.provincia \o r.canton \o IntToStr(r.month)

\* seed = hash(...)
SeedOf(salt, r) == Hash(salt, SeedText(r))

\* The seasonal adjustment of base_prob for one event type.
Seasonal(event_type, month, base_prob) ==
  IF event_type = "Inundación" /\ month \in {1, 2, 3, 4} THEN (base_prob * 13) \div 10
  ELSE IF event_type = "Incendio" /\ month \in {7, 8, 9, 10} THEN (base_prob * 13) \div 10
  ELSE base_prob

\* The probability without the cap at 100.0.
ProbabilityUncapped(event_type, month, base_prob) ==
  Round2(Seasonal(event_type, month, base_prob))

\* probability = min(round(base_prob, 2), 100.0)
Probability(event_type, month, base_prob) ==
  Min(Round2(Seasonal(event_type, month, base_prob)), 100000)

\* -------------------------------------------------------------------- state

VARIABLES
  MODEL_LOADED,  \* the module-level flag
  hashSalt,      \* the process's string-hash randomisation
  rng,           \* the random module's process-wide generator
  clock,         \* what datetime.now() returns
  task           \* per request: the payload, the handler's position and locals, the reply

vars == <<MODEL_LOADED, hashSalt, rng, clock, task>>

Tasks == 1..MaxTasks

\* A request body used where the route takes none (GET /health, GET /).
NoBody == [latitude |-> 0, longitude |-> 0, day |-> 0, month |-> 0,
           provincia |-> <<>>, canton |-> <<>>]

Example == [latitude |-> -21894, longitude |-> -798891, day |-> 15, month |-> 12,
            provincia |-> <<"G">>, canton |-> <<"B">>]

\* Accepted /predict payloads: the months cover the rainy season (1..4), the dry
\* season (7..10) and neither; two payloads differ only in coordinates and day;
\* two have the same concatenation provincia+canton+month ("GB12").
ValidBodies ==
  { Example,
    [Example EXCEPT !.month = 1],
    [Example EXCEPT !.month = 1, !.day = 30, !.latitude = 20000, !.longitude = -750000],
    [Example EXCEPT !.month = 8],
    [Example EXCEPT !.canton = <<"B", "1">>, !.month = 2],
    [Example EXCEPT !.canton = <<"B", "1">>, !.month = 1] }

\* /predict payloads with one field outside its domain.
InvalidBodies ==
  { [Example EXCEPT !.latitude = 20001],
    [Example EXCEPT !.longitude = -810001],
    [Example EXCEPT !.day = 32],
    [Example EXCEPT !.month = 0],
    [Example EXCEPT !.provincia = <<>>],
    [Example EXCEPT !.canton = <<>>] }

Bodies == ValidBodies \cup InvalidBodies

NoReply == [status |-> 0, body |-> [detail |-> "none"]]

FreeTask == [pc |-> "free", route |-> "none", req |-> NoBody, seed |-> 0,
             draws |-> <<>>, predictions |-> <<>>, reply |-> NoReply]

\* The state random.seed() leaves, given the entropy e the system supplies.
Reseeded(e) == [state |-> e, seeded |-> "os"]

\* The generator when startup finishes: seeded from system entropy when the
\* random module is imported.  One of the entropy states stands for it.
StartupRng == Reseeded(CHOOSE e \in EntropyStates : \A f \in EntropyStates : e <= f)

Init ==
  /\ MODEL_LOADED = MODEL_LOADED_Initial
  /\ hashSalt \in HashSalts
  /\ rng = StartupRng
  /\ clock = 0
  /\ task = [t \in Tasks |-> FreeTask]

\* ---------------------------------------------------------------- scheduling

\* Labels at which a handler has started and not yet replied.
InHandler == {"drawing"}

\* Handlers run on worker threads: any task may run at any time.
EventLoopFreeThreaded(t) == TRUE

\* The handlers are coroutines of one event loop and contain no await: once a
\* handler has started, no other task runs until it has returned.
EventLoopFree(t) == \A u \in Tasks \ {t} : task[u].pc \notin InHandler

\* Requests are numbered in the order they arrive.
NextToArrive(t) == task[t].pc = "free" /\ (IF t = 1 THEN TRUE ELSE task[t - 1].pc # "free")

\* ------------------------------------------------------------------- replies

HTTPException(status_code, detail) == [status |-> status_code, body |-> [detail |-> detail]]

\* What the framework replies to a body that fails PredictionRequest's validation.
RequestValidationError == HTTPException(422, "validation")

PredictionResponse(r, predictions, now) ==
  [status |-> 200,
   body |-> [success |-> TRUE,
             timestamp |-> now,
             location |-> [provincia |-> r.provincia, canton |-> r.canton,
                           coordinates |-> [lat |-> r.latitude, lng |-> r.longitude]],
             predictions |-> predictions,
             model_version |-> "mock-v1.0.0",
             is_mock |-> TRUE]]

\* ------------------------------------------------------------------- actions

\* A request arrives; the framework routes it and validates a /predict body
\* against PredictionRequest before the handler is scheduled.
Submit(t, route, body) ==
  /\ NextToArrive(t)
  /\ task' = [task EXCEPT ![t] =
       IF route = "/predict" /\ ~ValidRequest(body)
       THEN [FreeTask EXCEPT !.pc = "replied", !.route = route, !.req = body,
                             !.reply = RequestValidationError]
       ELSE [FreeTask EXCEPT !.pc = "accepted", !.route = route, !.req = body]]
  /\ UNCHANGED <<MODEL_LOADED, hashSalt, rng, clock>>

\* The generator is not seeded for the request: it keeps the state it has.
SeededStateStale(salt, r) == rng.state

\* The generator state random.seed(seed) installs for request r.
SeededState(salt, r) == RandomSeed(SeedOf(salt, r))

\* predict -> generate_mock_predictions, up to random.seed(seed).
predict_begin(t) ==
  /\ task[t].pc = "accepted" /\ task[t].route = "/predict"
  /\ EventLoopFree(t)
  /\ rng' = [state |-> SeededState(hashSalt, task[t].req), seeded |-> "request"]
  /\ task' = [task EXCEPT ![t].pc = "drawing",
                          ![t].seed = SeedOf(hashSalt, task[t].req)]
  /\ UNCHANGED <<MODEL_LOADED, hashSalt, clock>>

\* One iteration of the loop over event_types.  A probability that fails
\* EventProbability's validation raises; predict turns that into a 500.
predict_draw(t) ==
  /\ task[t].pc = "drawing" /\ Len(task[t].predictions) < Len(event_types)
  /\ EventLoopFree(t)
  /\ LET event_type  == event_types[Len(task[t].predictions) + 1]
         s           == RngStep(rng.state)
         base_prob   == Uniform_5_85(s)
         probability == Probability(event_type, task[t].req.month, base_prob)
     IN  /\ rng' = [rng EXCEPT !.state = s]
         /\ task' = [task EXCEPT ![t] =
              IF ValidEventProbability(probability)
              THEN [@ EXCEPT !.draws = Append(@, base_prob),
                             !.predictions = Append(@,
                                EventProbability(event_type, probability,
                                                 get_risk_level(probability)))]
              ELSE [@ EXCEPT !.pc = "replied",
                             !.draws = Append(@, base_prob),
                             !.reply = HTTPException(500, "Error en predicción")]]
  /\ UNCHANGED <<MODEL_LOADED, hashSalt, clock>>

\* The list generate_mock_predictions returns.
Returned(predictions) == predictions

\* random.seed(), return predictions, build the PredictionResponse.
predict_finish(t) ==
  /\ task[t].pc = "drawing" /\ Len(task[t].predictions) = Len(event_types)
  /\ EventLoopFree(t)
  /\ \E e \in EntropyStates : rng' = Reseeded(e)
  /\ task' = [task EXCEPT ![t].pc = "replied",
                          ![t].reply = PredictionResponse(task[t].req,
                                          Returned(task[t].predictions), clock)]
  /\ UNCHANGED <<MODEL_LOADED, hashSalt, clock>>

health_check(t) ==
  /\ task[t].pc = "accepted" /\ task[t].route = "/health"
  /\ EventLoopFree(t)
  /\ task' = [task EXCEPT ![t].pc = "replied",
                          ![t].reply = [status |-> 200,
                             body |-> [status |-> "healthy",
                                       service |-> "ai-service",
                                       model_loaded |-> MODEL_LOADED,
                                       mode |-> IF ~MODEL_LOADED THEN "mock" ELSE "production",
                                       timestamp |-> clock]]]
  /\ UNCHANGED <<MODEL_LOADED, hashSalt, rng, clock>>

root(t) ==
  /\ task[t].pc = "accepted" /\ task[t].route = "/"
  /\ EventLoopFree(t)
  /\ task' = [task EXCEPT ![t].pc = "replied",
                          ![t].reply = [status |-> 200,
                             body |-> [version |-> "1.0.0",
                                       status |-> "running",
                                       mode |-> IF ~MODEL_LOADED THEN "mock" ELSE "production"]]]
  /\ UNCHANGED <<MODEL_LOADED, hashSalt, rng, clock>>

\* Time passes.
Tick ==
  /\ clock < MaxClock
  /\ clock' = clock + 1
  /\ UNCHANGED <<MODEL_LOADED, hashSalt, rng, task>>

SubmitPredict == \E t \in Tasks, body \in Bodies : Submit(t, "/predict", body)
SubmitGet == \E t \in Tasks, route \in {"/health", "/"} : Submit(t, route, NoBody)
PredictBegin == \E t \in Tasks : predict_begin(t)
PredictDraw == \E t \in Tasks : predict_draw(t)
PredictFinish == \E t \in Tasks : predict_finish(t)
HealthCheck == \E t \in Tasks : health_check(t)
Root == \E t \in Tasks : root(t)

Next ==
  \/ SubmitPredict
  \/ SubmitGet
  \/ PredictBegin
  \/ PredictDraw
  \/ PredictFinish
  \/ HealthCheck
  \/ Root
  \/ Tick

Spec == Init /\ [][Next]_vars

\* ---------------------------------------------------------------- properties

Replied(t) == task[t].pc = "replied"

\* Task t is a /predict request that was answered.
PredictReplied(t) == Replied(t) /\ task[t].route = "/predict"

\* Task t is a /predict request answered with a success response.
PredictOK(t) == PredictReplied(t) /\ task[t].reply.status = 200

PredictionsOf(t) == task[t].reply.body.predictions

\* No handler has started and not yet replied.
Quiescent == \A t \in Tasks : task[t].pc \notin InHandler

\* C1: in every prediction of every successful /predict response, risk_level is
\* the tier of the reported probability: >= 75 "crítico", 50 <= p < 75 "alto",
\* 25 <= p < 50 "medio", p < 25 "bajo"; 25, 50 and 75 fall in the upper tier.
C1_RiskLevelIsTierOfProbability ==
  \A t \in Tasks : PredictOK(t) =>
    \A i \in DOMAIN PredictionsOf(t) :
      LET p == PredictionsOf(t)[i].probability
          l == PredictionsOf(t)[i].risk_level
      IN  /\ p >= 75000 => l = "crítico"
          /\ (p >= 50000 /\ p < 75000) => l = "alto"
          /\ (p >= 25000 /\ p < 50000) => l = "medio"
          /\ p < 25000 => l = "bajo"

\* C1 witness: one successful response reports exactly 75.0 as "crítico", and
\* another prediction of it below 25 as "bajo".
C1_Witness ==
  \E t \in Tasks : PredictOK(t) /\
    \E i, j \in DOMAIN PredictionsOf(t) :
      /\ PredictionsOf(t)[i].probability = 75000
      /\ PredictionsOf(t)[i].risk_level = "crítico"
      /\ PredictionsOf(t)[j].probability < 25000
      /\ PredictionsOf(t)[j].risk_level = "bajo"

\* The class index of an event type: Inundación 0, Deslizamiento 1, Incendio 2, Sismo 3.
ClassIndex(e) ==
  CASE e = "Inundación" -> 0 [] e = "Deslizamiento" -> 1
    [] e = "Incendio" -> 2 [] e = "Sismo" -> 3

\* C2: the predictions of every successful /predict response are sorted by
\* probability descending, equal probabilities in ascending class index.
C2_SortedByProbabilityDescending ==
  \A t \in Tasks : PredictOK(t) =>
    \A i, j \in DOMAIN PredictionsOf(t) : i < j =>
      LET a == PredictionsOf(t)[i]
          b == PredictionsOf(t)[j]
      IN  \/ a.probability > b.probability
          \/ /\ a.probability = b.probability
             /\ ClassIndex(a.event_type) < ClassIndex(b.event_type)

\* C3: /predict answers with success only if the model-loaded flag is true; an
\* accepted /predict request handled while the model is not loaded gets a 503.
C3_SuccessOnlyWhenLoaded ==
  \A t \in Tasks : (PredictReplied(t) /\ ValidRequest(task[t].req)) =>
    /\ task[t].reply.status = 200 => MODEL_LOADED
    /\ ~MODEL_LOADED => task[t].reply.status = 503

\* C4 as stated: two /predict requests with identical payloads get identical
\* responses.
C4_IdenticalResponses ==
  \A t, u \in Tasks :
    (PredictReplied(t) /\ PredictReplied(u) /\ task[t].req = task[u].req)
      => task[t].reply = task[u].reply

\* C4 amended: two /predict requests with identical payloads get responses that
\* agree in status and in every field except timestamp.
C4_IdenticalExceptTimestamp ==
  \A t, u \in Tasks :
    (PredictReplied(t) /\ PredictReplied(u) /\ task[t].req = task[u].req) =>
      /\ task[t].reply.status = task[u].reply.status
      /\ IF task[t].reply.status = 200
         THEN /\ task[t].reply.body.success = task[u].reply.body.success
              /\ task[t].reply.body.location = task[u].reply.body.location
              /\ task[t].reply.body.predictions = task[u].reply.body.predictions
              /\ task[t].reply.body.model_version = task[u].reply.body.model_version
              /\ task[t].reply.body.is_mock = task[u].reply.body.is_mock
         ELSE task[t].reply.body = task[u].reply.body

\* C4 witness: the same accepted payload answered twice, at different times.
C4_Witness ==
  \E t, u \in Tasks :
    /\ t # u /\ PredictOK(t) /\ PredictOK(u)
    /\ task[t].req = task[u].req
    /\ task[t].reply.body.timestamp # task[u].reply.body.timestamp
    /\ task[t].reply.body.predictions = task[u].reply.body.predictions

\* C5: every probability produced is within [0, 100], also where the seasonal
\* factor 1.3 applies, so EventProbability's validation never fails and no
\* /predict request is answered 500.
C5_ProbabilityWithinRange ==
  \A t \in Tasks :
    /\ \A i \in DOMAIN task[t].predictions :
         /\ task[t].predictions[i].probability >= 0
         /\ task[t].predictions[i].probability <= 100000
    /\ PredictReplied(t) => task[t].reply.status # 500
    /\ PredictOK(t) => PredictionsOf(t) = task[t].predictions

\* C5 witness: a successful response in a rainy-season month whose Inundación
\* draw times 1.3 exceeds 100 and is reported as 100.0.
C5_Witness ==
  \E t \in Tasks :
    /\ PredictOK(t)
    /\ task[t].req.month \in {1, 2, 3, 4}
    /\ (task[t].draws[1] * 13) \div 10 > 100000
    /\ PredictionsOf(t)[1].event_type = "Inundación"
    /\ PredictionsOf(t)[1].probability = 100000

\* C6: a /predict request with a field outside its domain is answered 400
\* before any prediction work: nothing is seeded, drawn or predicted for it.
C6_InvalidRejectedWith400 ==
  \A t \in Tasks :
    (task[t].route = "/predict" /\ ~ValidRequest(task[t].req)) =>
      /\ Replied(t)
      /\ task[t].reply.status = 400
      /\ task[t].draws = <<>>
      /\ task[t].predictions = <<>>

\* C7: whenever no handler is running, every piece of process-wide state (the
\* flag and the generator) has the value it had when startup finished.
C7_ProcessStateAsAtStartup ==
  Quiescent => /\ MODEL_LOADED = MODEL_LOADED_Initial
               /\ rng = StartupRng

\* C8: two successful /predict responses to requests that agree on provincia,
\* canton and month carry the same predictions, whatever latitude, longitude
\* and day are.
C8_DependsOnlyOnPlaceAndMonth ==
  \A t, u \in Tasks :
    ( /\ PredictOK(t) /\ PredictOK(u)
      /\ task[t].req.provincia = task[u].req.provincia
      /\ task[t].req.canton = task[u].req.canton
      /\ task[t].req.month = task[u].req.month )
      => PredictionsOf(t) = PredictionsOf(u)

\* C8 witness: two successful responses to requests with the same provincia,
\* canton and month and different latitude, longitude and day.
C8_Witness ==
  \E t, u \in Tasks :
    /\ PredictOK(t) /\ PredictOK(u)
    /\ task[t].req.provincia = task[u].req.provincia
    /\ task[t].req.canton = task[u].req.canton
    /\ task[t].req.month = task[u].req.month
    /\ task[t].req.latitude # task[u].req.latitude
    /\ task[t].req.longitude # task[u].req.longitude
    /\ task[t].req.day # task[u].req.day
    /\ PredictionsOf(t) = PredictionsOf(u)

\* The first n values random.uniform(5, 85) returns from generator state s.
RECURSIVE DrawsFrom(_, _)
DrawsFrom(s, n) ==
  IF n = 0 THEN <<>>
  ELSE <<Uniform_5_85(RngStep(s))>> \o DrawsFrom(RngStep(s), n - 1)

\* C9: at most one handler is between its seeding and its reply; the base
\* probabilities a request has drawn are those of the generator seeded with the
\* request's own seed; and whenever no handler is running the generator is
\* seeded from the system, not from a request.
C9_SeedDrawReseedNotInterleaved ==
  /\ Cardinality({t \in Tasks : task[t].pc \in InHandler}) <= 1
  /\ \A t \in Tasks :
       (task[t].route = "/predict" /\ task[t].pc \in InHandler \cup {"replied"}) =>
         task[t].draws =
           DrawsFrom(RandomSeed(Hash(hashSalt, SeedText(task[t].req))), Len(task[t].draws))
  /\ \A t \in Tasks : PredictOK(t) => Len(task[t].draws) = 4
  /\ Quiescent => rng.seeded = "os"

\* C9 witness: two requests are in the service at once: one has drawn twice in
\* its handler while another accepted request, with a different seed text, waits.
C9_Witness ==
  \E t, u \in Tasks :
    /\ task[t].route = "/predict" /\ task[t].pc = "drawing" /\ Len(task[t].draws) >= 2
    /\ task[u].route = "/predict" /\ task[u].pc = "accepted"
    /\ SeedText(task[u].req) # SeedText(task[t].req)

\* C10: every successful /predict response has exactly four predictions:
\* Inundación, Deslizamiento, Incendio, Sismo, in this order.
C10_FourPredictionsInFixedOrder ==
  \A t \in Tasks : PredictOK(t) =>
    /\ Len(PredictionsOf(t)) = 4
    /\ PredictionsOf(t)[1].event_type = "Inundación"
    /\ PredictionsOf(t)[2].event_type = "Deslizamiento"
    /\ PredictionsOf(t)[3].event_type = "Incendio"
    /\ PredictionsOf(t)[4].event_type = "Sismo"

\* C10 witness: a successful response whose predictions are not in descending
\* order of probability, so the fixed order is not a by-product of sorting.
C10_Witness ==
  \E t \in Tasks :
    /\ PredictOK(t)
    /\ Len(PredictionsOf(t)) = 4
    /\ PredictionsOf(t)[1].probability < PredictionsOf(t)[4].probability

====
